---- MODULE Spec2Model ----
(***************************************************************************)
(* Artifact-generation saga of the deployments service:                    *)
(* Deployments.GenerateArtifact sequencing the metadata store              *)
(* (IsArtifactUnique), the file storage (UploadArtifact, GetRequest,       *)
(* DeleteRequest, Delete) and the workflows client (StartGenerateArtifact). *)
(* Every collaborator call is one step of the calling goroutine; the       *)
(* collaborators' results are the nondeterministic results the mocks of    *)
(* the test suite return.                                                  *)
(***************************************************************************)
EXTENDS Integers, Sequences, FiniteSets

\* ------------------------------------------------------------------ bounds
\* Scaled-down ceiling of the declared payload size (MaxImageSize).
MaxImageSize == 2

\* ------------------------------------------------------------- input sets
\* In-flight invocations of GenerateArtifact (one goroutine each).
Calls == {"c1", "c2"}

Names == {"name", "other"}

DeviceTypeLists == {<<"Beagle Bone">>, <<"Raspberry Pi">>}

Sizes == {0, MaxImageSize, MaxImageSize + 1}

\* Tenant of the identity carried by the context; "" when there is none.
Tenants == {"", "tenant_id"}

\* Values uuid generation can produce.
IDs == {"id1", "id2"}

NoID == ""

\* the URI of a link that has not been requested
NoLink == << >>

\* model.MultipartGenerateArtifactMsg: the nil pointer and the messages
Descriptions == {"description"}

Types == {"single_file"}

ArgsValues == {"args"}

Tokens == {"token"}

NilMsg ==
    [nil |-> TRUE, Name |-> "", Description |-> "", Size |-> 0,
     DeviceTypesCompatible |-> << >>, Type |-> "", Args |-> "",
     ArtifactID |-> NoID, GetArtifactURI |-> NoLink, DeleteArtifactURI |-> NoLink,
     TenantID |-> "", Token |-> ""]

MultipartGenerateArtifactMsg ==
    {NilMsg} \cup [nil : {FALSE}, Name : Names, Description : Descriptions,
                   Size : Sizes, DeviceTypesCompatible : DeviceTypeLists,
                   Type : Types, Args : ArgsValues, ArtifactID : {NoID},
                   GetArtifactURI : {NoLink}, DeleteArtifactURI : {NoLink},
                   TenantID : {""}, Token : Tokens]

\* the messages a caller can build that break the declared invariants of the
\* type: a negative size, no compatible device type
UncheckedSizes == Sizes \cup {-1}

UncheckedDeviceTypeLists == DeviceTypeLists \cup {<< >>}

UncheckedMsg ==
    {NilMsg} \cup
    [nil : {FALSE}, Name : Names, Description : Descriptions,
     Size : UncheckedSizes, DeviceTypesCompatible : UncheckedDeviceTypeLists,
     Type : Types, Args : ArgsValues, ArtifactID : {NoID},
     GetArtifactURI : {NoLink}, DeleteArtifactURI : {NoLink},
     TenantID : {""}, Token : Tokens]

\* ------------------------------------------------------------ error values
\* An error value is its chain of messages, outermost first, root cause last;
\* nil is the empty chain.
NoError == << >>

\* errors.New(message)
New(message) == <<message>>

\* errors.Wrap(err, message): the message in front, the cause behind it
Wrap(err, message) == <<message>> \o err

\* err.Error(): the messages of the chain joined with ": "
RECURSIVE Error(_)
Error(err) ==
    IF Len(err) = 0 THEN ""
    ELSE IF Len(err) = 1 THEN err[1]
    ELSE err[1] \o ": " \o Error(Tail(err))

ErrModelMultipartUploadMsgMalformed == New("ErrModelMultipartUploadMsgMalformed")

ErrModelArtifactFileTooLarge == New("ErrModelArtifactFileTooLarge")

ErrModelArtifactNotUnique == New("ErrModelArtifactNotUnique")

\* the errors the collaborators return
ErrDbQuery == New("error")

ErrUpload == New("error while uploading")

ErrGetRequest == New("error get request")

ErrDeleteRequest == New("error delete request")

ErrDelete == New("unable to remove the file")

ErrTransport == New("connection refused")

\* ctx.Err() of a cancelled context, as a collaborator returns it
ErrCanceled == New("context canceled")

MsgUniqueCheck == "Fail to check if artifact is unique"

MsgStartWorkflow == "failed to start workflow: generate_artifact"

\* ------------------------------------------------- collaborators' results
\* DataStore.IsArtifactUnique returns (bool, error)
DbResults ==
    {[unique |-> TRUE, err |-> NoError], [unique |-> FALSE, err |-> NoError],
     [unique |-> FALSE, err |-> ErrDbQuery], [unique |-> TRUE, err |-> ErrDbQuery]}

StatusCreated == 201

StatusBadRequest == 400

\* HTTPClient.Do returns (*http.Response, error)
HTTPResults ==
    {[StatusCode |-> StatusCreated, err |-> NoError],
     [StatusCode |-> 200, err |-> NoError],
     [StatusCode |-> StatusBadRequest, err |-> NoError],
     [StatusCode |-> 0, err |-> ErrTransport]}

\* model.Link{Uri}: the signed URL of one operation on one object
Link(method, objectId) == [Uri |-> <<method, objectId>>]

\* ------------------------------------------------------------------ state
VARIABLES
    pc,          \* per call: the stage the saga has reached
    msg,         \* per call: the *MultipartGenerateArtifactMsg passed in
    tenant,      \* per call: the tenant of the identity in ctx ("" if none)
    artifactID,  \* per call: the generated ID, the key of the raw upload
    getLink,     \* per call: the URI of the signed GET link ("" -> << >>)
    deleteLink,  \* per call: the URI of the signed DELETE link
    trigger,     \* per call: the error of the stage that failed
    calls,       \* per call: the collaborator calls made, in order, with results
    posted,      \* per call: the JSON bodies sent to the workflows engine
    ret,         \* per call: the (artifactID, err) returned
    storage,     \* file storage: the keys that hold an object
    allocated,   \* the IDs generated so far
    responses,   \* per call: the results HTTPClient.Do gave the workflows client
    cancelled,   \* per call: whether ctx has been cancelled
    reader,      \* per call: the bytes the message's FileReader offers
    consumed,    \* per call: the bytes read from the FileReader
    http,        \* the request the identity middleware handled last
    middleware   \* the gin middleware built last: its arguments, its options

vars ==
    <<pc, msg, tenant, artifactID, getLink, deleteLink, trigger, calls, posted,
      ret, storage, allocated, responses, cancelled, reader, consumed, http,
      middleware>>

NoReturn == [id |-> NoID, err |-> NoError]

\* one recorded collaborator call: the method, the object key it was given
\* (NoID when it takes none), the boolean it returned (TRUE when it returns
\* none) and the error it returned
Called(op, key, result, err) == [op |-> op, key |-> key, result |-> result, err |-> err]

\* ---------------------------------------------------- GenerateArtifact's logic
\* the checks made before any collaborator is called
ValidateNoSizeLimit(m) ==
    IF m.nil THEN ErrModelMultipartUploadMsgMalformed ELSE NoError

ValidateNoNilCheck(m) ==
    IF m.Size > MaxImageSize THEN ErrModelArtifactFileTooLarge ELSE NoError

Validate(m) ==
    IF m.nil THEN ErrModelMultipartUploadMsgMalformed
    ELSE IF m.Size > MaxImageSize THEN ErrModelArtifactFileTooLarge
    ELSE NoError

\* what the result of IsArtifactUnique makes of the call
UniqueErrorIgnoresConflict(r) ==
    IF r.err # NoError THEN Wrap(r.err, MsgUniqueCheck) ELSE NoError

UniqueErrorConflictFirst(r) ==
    IF ~r.unique THEN ErrModelArtifactNotUnique
    ELSE IF r.err # NoError THEN Wrap(r.err, MsgUniqueCheck)
    ELSE NoError

UniqueErrorSwallowsQueryError(r) ==
    IF ~r.unique THEN ErrModelArtifactNotUnique ELSE NoError

UniqueError(r) ==
    IF r.err # NoError THEN Wrap(r.err, MsgUniqueCheck)
    ELSE IF ~r.unique THEN ErrModelArtifactNotUnique
    ELSE NoError

\* workflows client: the error StartGenerateArtifact makes of the HTTP result
StartErrorAnySuccessStatus(resp) ==
    IF resp.err # NoError THEN Wrap(resp.err, MsgStartWorkflow)
    ELSE IF resp.StatusCode >= 300 THEN New(MsgStartWorkflow)
    ELSE NoError

StartError(resp) ==
    IF resp.err # NoError THEN Wrap(resp.err, MsgStartWorkflow)
    ELSE IF resp.StatusCode # StatusCreated THEN New(MsgStartWorkflow)
    ELSE NoError

\* the stages whose failure is followed by the removal of the raw upload
CleansUpNever(stage) == FALSE

CleansUpAlways(stage) == TRUE

CleansUpAfterUploadToo(stage) ==
    stage \in {"UploadArtifact", "StartGenerateArtifact"}

CleansUpAfter(stage) == stage = "StartGenerateArtifact"

\* the error returned once the cleanup has run
CleanupErrorCauseFirst(err, cleanupErr) ==
    IF cleanupErr # NoError THEN Wrap(cleanupErr, Error(err)) ELSE err

CleanupErrorDropsCause(err, cleanupErr) ==
    IF cleanupErr # NoError THEN cleanupErr ELSE err

CleanupError(err, cleanupErr) ==
    IF cleanupErr # NoError THEN Wrap(err, Error(cleanupErr)) ELSE err

\* the ID returned on success
ReturnedIDEmpty(id) == NoID

ReturnedID(id) == id

\* the key each storage call is made with
ObjectKeyShared(id) == "id1"

ObjectKey(id) == id

\* the IDs uuid generation can give a call, given the ones given before
NewIDsRepeating(used) == IDs

NewIDs(used) == IDs \ used

\* the stage a call is at once its cleanup has returned
AfterDeleteRetries(cleanupErr) ==
    IF cleanupErr # NoError THEN "compensating" ELSE "failed"

AfterDelete(cleanupErr) == "failed"

\* the message sent to the workflows engine
WorkflowMsgNoID(m, id, get, del, tenantID) ==
    [Name |-> m.Name, Description |-> m.Description, Size |-> m.Size,
     DeviceTypesCompatible |-> m.DeviceTypesCompatible, Type |-> m.Type,
     Args |-> m.Args, ArtifactID |-> NoID,
     GetArtifactURI |-> get, DeleteArtifactURI |-> del, TenantID |-> tenantID,
     Token |-> m.Token]

WorkflowMsgNoTenant(m, id, get, del, tenantID) ==
    [Name |-> m.Name, Description |-> m.Description, Size |-> m.Size,
     DeviceTypesCompatible |-> m.DeviceTypesCompatible, Type |-> m.Type,
     Args |-> m.Args, ArtifactID |-> id,
     GetArtifactURI |-> get, DeleteArtifactURI |-> del, TenantID |-> "",
     Token |-> m.Token]

WorkflowMsgSwappedLinks(m, id, get, del, tenantID) ==
    [Name |-> m.Name, Description |-> m.Description, Size |-> m.Size,
     DeviceTypesCompatible |-> m.DeviceTypesCompatible, Type |-> m.Type,
     Args |-> m.Args, ArtifactID |-> id,
     GetArtifactURI |-> del, DeleteArtifactURI |-> get, TenantID |-> tenantID,
     Token |-> m.Token]

WorkflowMsg(m, id, get, del, tenantID) ==
    [Name |-> m.Name, Description |-> m.Description, Size |-> m.Size,
     DeviceTypesCompatible |-> m.DeviceTypesCompatible, Type |-> m.Type,
     Args |-> m.Args, ArtifactID |-> id,
     GetArtifactURI |-> get, DeleteArtifactURI |-> del, TenantID |-> tenantID,
     Token |-> m.Token]

\* ------------------------------------------------- identity middleware
\* defaultPathRegex and a regex an option can set instead
defaultPathRegex == "^/api/management/v[0-9.]+/.+"

PathRegexes == {defaultPathRegex, "^/api/.+"}

\* c.FullPath() of the routes requests arrive on
FullPaths == {"/api/management/v1/deployments/artifacts/generate",
              "/api/internal/v1/deployments/health"}

\* pathRegex.MatchString(path), for the regexes and the routes above
MatchString(regex, path) ==
    IF regex = defaultPathRegex
    THEN path = "/api/management/v1/deployments/artifacts/generate"
    ELSE TRUE

\* Identity: the claims of a token
Identities ==
    [Subject : {"subject"}, Tenant : {"", "tenant_id"}, IsUser : BOOLEAN,
     IsDevice : BOOLEAN, Plan : {"", "enterprise"}]

\* a JWT is the claims it decodes to: none when it cannot be parsed
JWTs == {[claims |-> {}]} \cup {[claims |-> {idty}] : idty \in Identities}

\* the Authorization header: absent ({}) or carrying one token
Authorizations == {{}} \cup {{jwt} : jwt \in JWTs}

\* the fields of the logger a request's context arrives with
Loggers == {{}, {<<"request_id", "r1">>}}

\* a request context: the identity attached to it ({} when none), its logger
Context(identity, logger) == [identity |-> identity, logger |-> logger]

\* the incoming requests: no identity is attached before the middleware
Requests ==
    [FullPath : FullPaths, Authorization : Authorizations,
     ctx : {Context({}, l) : l \in Loggers}]

\* MiddlewareOptions with both fields set
MiddlewareOptions == [PathRegex : PathRegexes, UpdateLogger : BOOLEAN]

\* the longest argument list Middleware is called with
MaxOpts == 2

\* a *MiddlewareOptions argument: nil, or options with each field unset ({})
\* or set to one value
NilOptions == [nil |-> TRUE, PathRegex |-> {}, UpdateLogger |-> {}]

OptionalOptions ==
    {NilOptions} \cup
    [nil : {FALSE}, PathRegex : {{}} \cup {{re} : re \in PathRegexes},
     UpdateLogger : {{}} \cup {{b} : b \in BOOLEAN}]

\* the argument lists opts ...*MiddlewareOptions
OptionLists == UNION {[1 .. n -> OptionalOptions] : n \in 0 .. MaxOpts}

\* NewMiddlewareOptions().SetPathRegex(defaultPathRegex).SetUpdateLogger(true)
DefaultOptions ==
    [nil |-> FALSE, PathRegex |-> {defaultPathRegex}, UpdateLogger |-> {TRUE}]

\* one pass of the loop over opts: o is merged into opt
MergeReplaces(opt, o) == IF o.nil THEN opt ELSE o

Merge(opt, o) ==
    IF o.nil THEN opt
    ELSE [opt EXCEPT !.PathRegex = IF o.PathRegex # {} THEN o.PathRegex ELSE @,
                     !.UpdateLogger = IF o.UpdateLogger # {} THEN o.UpdateLogger ELSE @]

\* the loop over opts, in argument order
RECURSIVE MergeAll(_, _)
MergeAll(opt, opts) ==
    IF opts = << >> THEN opt ELSE MergeAll(Merge(opt, Head(opts)), Tail(opts))

\* *opt.PathRegex and *opt.UpdateLogger of the merged options
Deref(opt) ==
    [PathRegex |-> CHOOSE re \in opt.PathRegex : TRUE,
     UpdateLogger |-> CHOOSE b \in opt.UpdateLogger : TRUE]

ErrNoAuthorization == New("Authorization not present in header")

ErrParseJWT == New("identity: incorrect token format")

\* ExtractJWTFromHeader(r): (jwt, err)
ExtractJWTFromHeader(r) ==
    IF r.Authorization = {}
    THEN [jwt |-> [claims |-> {}], err |-> ErrNoAuthorization]
    ELSE [jwt |-> CHOOSE jwt \in r.Authorization : TRUE, err |-> NoError]

\* ExtractIdentity(jwt): (identity, err)
ExtractIdentity(jwt) ==
    [identity |-> jwt.claims,
     err |-> IF jwt.claims = {} THEN ErrParseJWT ELSE NoError]

\* the log context built from an identity
LogCtx(idty) ==
    {<<IF idty.IsDevice THEN "device_id"
       ELSE IF idty.IsUser THEN "user_id" ELSE "sub", idty.Subject>>}
      \cup (IF idty.Tenant # "" THEN {<<"tenant_id", idty.Tenant>>} ELSE {})
      \cup (IF idty.Plan # "" THEN {<<"plan", idty.Plan>>} ELSE {})

\* l.F(logCtx): the logger with the fields added, a given key replaced
F(l, logCtx) ==
    {f \in l : \A g \in logCtx : g[1] # f[1]} \cup logCtx

StatusUnauthorized == 401

BearerRealm == "Bearer realm=\"ManagementJWT\""

\* what one pass of a request through a middleware leaves behind: the request
\* and the options it ran with, the request's context afterwards, the response
\* written, whether the chain was aborted, the calls of the next handler
Handling(mw, opt, r) ==
    [mw |-> mw, opt |-> opt, req |-> r, ctx |-> r.ctx, status |-> 0,
     wwwAuthenticate |-> "", err |-> NoError, aborted |-> FALSE, handled |-> 0,
     warned |-> FALSE]

NoRequest ==
    [mw |-> "none", opt |-> [PathRegex |-> defaultPathRegex, UpdateLogger |-> TRUE],
     req |-> [FullPath |-> "", Authorization |-> {}, ctx |-> Context({}, {})],
     ctx |-> Context({}, {}), status |-> 0, wwwAuthenticate |-> "",
     err |-> NoError, aborted |-> FALSE, handled |-> 0, warned |-> FALSE]

\* the next handler of the chain is called with the request as it is now
Handled(x) == [x EXCEPT !.handled = @ + 1]

\* gin: exitUnauthorized
ExitUnauthorizedNoAbort(x, err) ==
    [x EXCEPT !.wwwAuthenticate = BearerRealm, !.status = StatusUnauthorized,
              !.err = err]

ExitUnauthorized(x, err) ==
    [x EXCEPT !.wwwAuthenticate = BearerRealm, !.status = StatusUnauthorized,
              !.err = err, !.aborted = TRUE]

\* gin: the context given to c.Request once the identity is known
GinContext(updateLogger, ctx, idty) ==
    Context({idty}, IF updateLogger THEN F(ctx.logger, LogCtx(idty)) ELSE ctx.logger)

\* the gin.HandlerFunc Middleware returns, for the merged options opt
GinHandlerFunc(opt, r) ==
    LET x == Handling("gin", opt, r)
        jwt == ExtractJWTFromHeader(r)
        idty == ExtractIdentity(jwt.jwt)
    IN  IF ~MatchString(opt.PathRegex, r.FullPath) THEN x
        ELSE IF jwt.err # NoError THEN ExitUnauthorized(x, jwt.err)
        ELSE IF idty.err # NoError THEN ExitUnauthorized(x, idty.err)
        ELSE [x EXCEPT !.ctx = GinContext(opt.UpdateLogger, r.ctx,
                                          CHOOSE i \in idty.identity : TRUE)]

\* gin's chain: the handlers after the middleware run unless it aborted
GinChain(x) == IF x.aborted THEN x ELSE Handled(x)

\* go-json-rest: no token in the header: h(w, r); return
MissingJWTFallsThrough(x) == Handled(Handled(x))

MissingJWT(x) == Handled(x)

\* go-json-rest: the context given to r.Request once the identity is known
RestContextOnlyWithLogger(updateLogger, ctx, idty) ==
    IF updateLogger THEN Context({idty}, F(ctx.logger, LogCtx(idty))) ELSE ctx

RestContext(updateLogger, ctx, idty) ==
    Context({idty}, IF updateLogger THEN F(ctx.logger, LogCtx(idty)) ELSE ctx.logger)

\* (mw *IdentityMiddleware).MiddlewareFunc(h), for mw.UpdateLogger
MiddlewareFunc(updateLogger, r) ==
    LET x == Handling("rest", [PathRegex |-> defaultPathRegex,
                               UpdateLogger |-> updateLogger], r)
        jwt == ExtractJWTFromHeader(r)
        idty == ExtractIdentity(jwt.jwt)
    IN  IF jwt.err # NoError THEN MissingJWT(x)
        ELSE IF idty.err # NoError THEN Handled([x EXCEPT !.warned = TRUE])
        ELSE Handled([x EXCEPT !.ctx = RestContext(updateLogger, r.ctx,
                                                   CHOOSE i \in idty.identity : TRUE)])

\* ---------------------------------------------------------------- actions
\* the lengths of the payload streams
PayloadLens == 0 .. MaxImageSize + 1

\* the state of a new Deployments, whatever the callers' streams offer
InitDeployments ==
    /\ pc = [c \in Calls |-> "idle"]
    /\ msg = [c \in Calls |-> NilMsg]
    /\ tenant = [c \in Calls |-> ""]
    /\ artifactID = [c \in Calls |-> NoID]
    /\ getLink = [c \in Calls |-> NoLink]
    /\ deleteLink = [c \in Calls |-> NoLink]
    /\ trigger = [c \in Calls |-> NoError]
    /\ calls = [c \in Calls |-> << >>]
    /\ posted = [c \in Calls |-> << >>]
    /\ ret = [c \in Calls |-> NoReturn]
    /\ storage = {}
    /\ allocated = {}
    /\ responses = [c \in Calls |-> << >>]
    /\ cancelled = [c \in Calls |-> FALSE]
    /\ consumed = [c \in Calls |-> 0]
    /\ http = NoRequest
    /\ middleware = [opts |-> << >>, opt |-> DefaultOptions]

\* every stream offers more than any accepted size
Init ==
    /\ InitDeployments
    /\ reader = [c \in Calls |-> MaxImageSize + 1]

\* the streams offer any number of bytes
InitCall ==
    /\ InitDeployments
    /\ reader \in [Calls -> PayloadLens]

\* the results a collaborator gives a call: with ctx cancelled it aborts
Results(c, results, aborted) == IF cancelled[c] THEN {aborted} ELSE results

\* io.LimitReader(r, n) read to its end: what is read of a stream of avail bytes
LimitedReadUnlimited(n, avail) == avail

LimitedRead(n, avail) == IF n <= 0 THEN 0 ELSE IF avail < n THEN avail ELSE n

\* return "", err
Fail(c, err) ==
    /\ pc' = [pc EXCEPT ![c] = "failed"]
    /\ ret' = [ret EXCEPT ![c] = [id |-> NoID, err |-> err]]

\* a stage after the upload failed: clean up first, or return the error
FailStage(c, stage, err) ==
    IF CleansUpAfter(stage)
    THEN /\ pc' = [pc EXCEPT ![c] = "compensating"]
         /\ trigger' = [trigger EXCEPT ![c] = err]
         /\ ret' = ret
    ELSE /\ Fail(c, err)
         /\ trigger' = trigger

\* d.GenerateArtifact(ctx, multipartGenerateArtifactMsg) is called
GenerateArtifactWith(c, requests) ==
    /\ pc[c] = "idle"
    /\ \E m \in requests, t \in Tenants :
          /\ msg' = [msg EXCEPT ![c] = m]
          /\ tenant' = [tenant EXCEPT ![c] = t]
          /\ IF Validate(m) # NoError
             THEN Fail(c, Validate(m))
             ELSE /\ pc' = [pc EXCEPT ![c] = "validated"]
                  /\ ret' = ret
    /\ UNCHANGED <<http, middleware, artifactID, getLink, deleteLink, trigger, calls, posted,
                   storage, allocated, responses, cancelled, reader, consumed>>

GenerateArtifact(c) == GenerateArtifactWith(c, MultipartGenerateArtifactMsg)

\* d.db.IsArtifactUnique(ctx, Name, DeviceTypesCompatible); then the new ID
IsArtifactUnique(c) ==
    /\ pc[c] = "validated"
    /\ \E r \in Results(c, DbResults, [unique |-> FALSE, err |-> ErrCanceled]) :
          /\ calls' = [calls EXCEPT ![c] = Append(@, Called("IsArtifactUnique", NoID, r.unique, r.err))]
          /\ IF UniqueError(r) # NoError
             THEN /\ Fail(c, UniqueError(r))
                  /\ UNCHANGED <<artifactID, allocated>>
             ELSE /\ \E id \in NewIDs(allocated) :
                        /\ artifactID' = [artifactID EXCEPT ![c] = id]
                        /\ allocated' = allocated \cup {id}
                  /\ pc' = [pc EXCEPT ![c] = "unique"]
                  /\ ret' = ret
    /\ UNCHANGED <<http, middleware, msg, tenant, getLink, deleteLink, trigger, posted, storage,
                   responses, cancelled, reader, consumed>>

\* d.fileStorage.UploadArtifact(ctx, artifactID, Size, LimitReader, contentType)
UploadArtifact(c) ==
    /\ pc[c] = "unique"
    /\ \E err \in Results(c, {NoError, ErrUpload}, ErrCanceled) :
          /\ calls' = [calls EXCEPT ![c] =
                          Append(@, Called("UploadArtifact", ObjectKey(artifactID[c]), TRUE, err))]
          /\ IF err # NoError
             THEN /\ FailStage(c, "UploadArtifact", err)
                  /\ storage' = storage
                  \* the upload stopped anywhere in the limited stream
                  /\ \E n \in 0 .. LimitedRead(msg[c].Size, reader[c]) :
                        consumed' = [consumed EXCEPT ![c] = n]
             ELSE /\ storage' = storage \cup {ObjectKey(artifactID[c])}
                  /\ pc' = [pc EXCEPT ![c] = "uploaded"]
                  /\ consumed' = [consumed EXCEPT ![c] =
                                      LimitedRead(msg[c].Size, reader[c])]
                  /\ UNCHANGED <<ret, trigger>>
    /\ UNCHANGED <<http, middleware, msg, tenant, artifactID, getLink, deleteLink, posted, allocated,
                   responses, cancelled, reader>>

\* d.fileStorage.GetRequest(ctx, artifactID, expire, contentType)
GetRequest(c) ==
    /\ pc[c] = "uploaded"
    /\ \E err \in Results(c, {NoError, ErrGetRequest}, ErrCanceled) :
          /\ calls' = [calls EXCEPT ![c] =
                          Append(@, Called("GetRequest", ObjectKey(artifactID[c]), TRUE, err))]
          /\ IF err # NoError
             THEN /\ FailStage(c, "GetRequest", err)
                  /\ getLink' = getLink
             ELSE /\ getLink' = [getLink EXCEPT ![c] = Link("GET", ObjectKey(artifactID[c])).Uri]
                  /\ pc' = [pc EXCEPT ![c] = "hasGetLink"]
                  /\ UNCHANGED <<ret, trigger>>
    /\ UNCHANGED <<http, middleware, msg, tenant, artifactID, deleteLink, posted, storage, allocated,
                   responses, cancelled, reader, consumed>>

\* d.fileStorage.DeleteRequest(ctx, artifactID, expire)
DeleteRequest(c) ==
    /\ pc[c] = "hasGetLink"
    /\ \E err \in Results(c, {NoError, ErrDeleteRequest}, ErrCanceled) :
          /\ calls' = [calls EXCEPT ![c] =
                          Append(@, Called("DeleteRequest", ObjectKey(artifactID[c]), TRUE, err))]
          /\ IF err # NoError
             THEN /\ FailStage(c, "DeleteRequest", err)
                  /\ deleteLink' = deleteLink
             ELSE /\ deleteLink' = [deleteLink EXCEPT ![c] =
                                       Link("DELETE", ObjectKey(artifactID[c])).Uri]
                  /\ pc' = [pc EXCEPT ![c] = "hasDeleteLink"]
                  /\ UNCHANGED <<ret, trigger>>
    /\ UNCHANGED <<http, middleware, msg, tenant, artifactID, getLink, posted, storage, allocated,
                   responses, cancelled, reader, consumed>>

\* d.workflowsClient.StartGenerateArtifact(ctx, msg): one POST to the engine
StartGenerateArtifact(c) ==
    /\ pc[c] = "hasDeleteLink"
    /\ \E resp \in Results(c, HTTPResults, [StatusCode |-> 0, err |-> ErrCanceled]) :
          /\ responses' = [responses EXCEPT ![c] = Append(@, resp)]
          /\ posted' = [posted EXCEPT ![c] =
                           Append(@, WorkflowMsg(msg[c], artifactID[c], getLink[c],
                                                 deleteLink[c], tenant[c]))]
          /\ calls' = [calls EXCEPT ![c] =
                          Append(@, Called("StartGenerateArtifact", artifactID[c], TRUE,
                                           StartError(resp)))]
          /\ IF StartError(resp) # NoError
             THEN FailStage(c, "StartGenerateArtifact", StartError(resp))
             ELSE /\ pc' = [pc EXCEPT ![c] = "done"]
                  /\ ret' = [ret EXCEPT ![c] =
                                [id |-> ReturnedID(artifactID[c]), err |-> NoError]]
                  /\ trigger' = trigger
    /\ UNCHANGED <<http, middleware, msg, tenant, artifactID, getLink, deleteLink, storage, allocated,
                   cancelled, reader, consumed>>

\* d.fileStorage.Delete(ctx, artifactID): the cleanup after a failed stage
Delete(c) ==
    /\ pc[c] = "compensating"
    /\ \E cleanupErr \in Results(c, {NoError, ErrDelete}, ErrCanceled) :
          /\ calls' = [calls EXCEPT ![c] =
                          Append(@, Called("Delete", ObjectKey(artifactID[c]), TRUE, cleanupErr))]
          /\ storage' = IF cleanupErr = NoError
                        THEN storage \ {ObjectKey(artifactID[c])}
                        ELSE storage
          /\ pc' = [pc EXCEPT ![c] = AfterDelete(cleanupErr)]
          /\ ret' = [ret EXCEPT ![c] =
                        IF AfterDelete(cleanupErr) = "failed"
                        THEN [id |-> NoID, err |-> CleanupError(trigger[c], cleanupErr)]
                        ELSE @]
    /\ UNCHANGED <<http, middleware, msg, tenant, artifactID, getLink, deleteLink, trigger, posted,
                   allocated, responses, cancelled, reader, consumed>>

\* the caller cancels ctx while the call is in flight
Cancel(c) ==
    /\ pc[c] \in {"validated", "unique", "uploaded", "hasGetLink", "hasDeleteLink",
                  "compensating"}
    /\ ~cancelled[c]
    /\ cancelled' = [cancelled EXCEPT ![c] = TRUE]
    /\ UNCHANGED <<http, middleware, pc, msg, tenant, artifactID, getLink, deleteLink, trigger, calls,
                   posted, ret, storage, allocated, responses, reader, consumed>>

Next ==
    \E c \in Calls :
        \/ GenerateArtifact(c)
        \/ IsArtifactUnique(c)
        \/ UploadArtifact(c)
        \/ GetRequest(c)
        \/ DeleteRequest(c)
        \/ StartGenerateArtifact(c)
        \/ Delete(c)

Spec == Init /\ [][Next]_vars

\* one call alone, with any payload stream and a ctx that can be cancelled
OneCall == {"c1"}

NextCall ==
    \E c \in OneCall :
        \/ GenerateArtifact(c)
        \/ IsArtifactUnique(c)
        \/ UploadArtifact(c)
        \/ GetRequest(c)
        \/ DeleteRequest(c)
        \/ StartGenerateArtifact(c)
        \/ Delete(c)
        \/ Cancel(c)

SpecCall == InitCall /\ [][NextCall]_vars

\* the concurrent calls, each with a ctx that can be cancelled
NextCancel ==
    \E c \in Calls :
        \/ GenerateArtifact(c)
        \/ IsArtifactUnique(c)
        \/ UploadArtifact(c)
        \/ GetRequest(c)
        \/ DeleteRequest(c)
        \/ StartGenerateArtifact(c)
        \/ Delete(c)
        \/ Cancel(c)

SpecCancel == Init /\ [][NextCancel]_vars

\* one call with the messages validation has to judge
NextUnchecked ==
    \E c \in OneCall :
        \/ GenerateArtifactWith(c, UncheckedMsg)
        \/ IsArtifactUnique(c)
        \/ UploadArtifact(c)
        \/ GetRequest(c)
        \/ DeleteRequest(c)
        \/ StartGenerateArtifact(c)
        \/ Delete(c)

SpecUnchecked == Init /\ [][NextUnchecked]_vars

\* the concurrent calls when every collaborator call returns
Returns(c) ==
    \/ IsArtifactUnique(c)
    \/ UploadArtifact(c)
    \/ GetRequest(c)
    \/ DeleteRequest(c)
    \/ StartGenerateArtifact(c)
    \/ Delete(c)

SpecReturns == Init /\ [][Next]_vars /\ \A c \in Calls : WF_vars(Returns(c))

\* a request passes the gin middleware built with options opt
Middleware ==
    /\ \E opt \in MiddlewareOptions, r \in Requests :
          http' = GinChain(GinHandlerFunc(opt, r))
    /\ UNCHANGED <<pc, msg, tenant, artifactID, getLink, deleteLink, trigger, calls,
                   posted, ret, storage, allocated, responses, cancelled, reader,
                   consumed, middleware>>

\* a request passes the go-json-rest middleware
IdentityMiddleware ==
    /\ \E updateLogger \in BOOLEAN, r \in Requests :
          http' = MiddlewareFunc(updateLogger, r)
    /\ UNCHANGED <<pc, msg, tenant, artifactID, getLink, deleteLink, trigger, calls,
                   posted, ret, storage, allocated, responses, cancelled, reader,
                   consumed, middleware>>

\* Middleware(opts...) is called, before the router serves: the options
\* are merged
BuildMiddleware ==
    /\ http.mw = "none"
    /\ \E opts \in OptionLists :
          middleware' = [opts |-> opts, opt |-> MergeAll(DefaultOptions, opts)]
    /\ UNCHANGED <<pc, msg, tenant, artifactID, getLink, deleteLink, trigger, calls,
                   posted, ret, storage, allocated, responses, cancelled, reader,
                   consumed, http>>

\* the first request passes the gin middleware built last
ServeRequest ==
    /\ http.mw = "none"
    /\ \E r \in Requests :
          http' = GinChain(GinHandlerFunc(Deref(middleware.opt), r))
    /\ UNCHANGED <<pc, msg, tenant, artifactID, getLink, deleteLink, trigger, calls,
                   posted, ret, storage, allocated, responses, cancelled, reader,
                   consumed, middleware>>

NextOptions ==
    \/ BuildMiddleware
    \/ ServeRequest

SpecOptions == Init /\ [][NextOptions]_vars

NextIdentity ==
    \/ Middleware
    \/ IdentityMiddleware

SpecIdentity == Init /\ [][NextIdentity]_vars

\* ------------------------------------------------- reading the call record
\* the positions in call c's record of the calls of one method
CallsOf(c, op) == {i \in DOMAIN calls[c] : calls[c][i].op = op}

Succeeded(c, op) == \E i \in CallsOf(c, op) : calls[c][i].err = NoError

FailedAt(c, op) == \E i \in CallsOf(c, op) : calls[c][i].err # NoError

\* the errors one method returned to call c
ErrorsOf(c, op) == {calls[c][i].err : i \in CallsOf(c, op)} \ {NoError}

\* the keys one method was called with by call c
KeysOf(c, op) == {calls[c][i].key : i \in CallsOf(c, op)}

Returned(c) == pc[c] \in {"done", "failed"}

\* exactly one Delete, and it is given the key that was given to UploadArtifact
DeletedUploadOnce(c) ==
    /\ Cardinality(CallsOf(c, "Delete")) = 1
    /\ KeysOf(c, "Delete") = KeysOf(c, "UploadArtifact")

StorageOps == {"UploadArtifact", "GetRequest", "DeleteRequest", "Delete"}

\* ================================================================ claims
\* C1: when the uniqueness query and the upload succeed and the signed GET
\* link request fails, the call has, by the time it returns, called Delete
\* exactly once, with the key that was passed to UploadArtifact.
C1_DeleteAfterGetLinkFailure ==
    \A c \in Calls :
        (/\ Returned(c)
         /\ Succeeded(c, "IsArtifactUnique")
         /\ Succeeded(c, "UploadArtifact")
         /\ FailedAt(c, "GetRequest"))
        => DeletedUploadOnce(c)

\* C2: when the workflow submission fails and the Delete that follows fails
\* too, the call returns an empty ID and an error whose text is the text of
\* the Delete's error, then ": ", then the text of the submission's error.
C2_BothCausesDeleteFirst ==
    \A c \in Calls :
        (/\ pc[c] = "failed"
         /\ FailedAt(c, "StartGenerateArtifact")
         /\ FailedAt(c, "Delete"))
        => /\ ret[c].id = NoID
           /\ \E d \in ErrorsOf(c, "Delete"), w \in ErrorsOf(c, "StartGenerateArtifact") :
                 /\ Error(ret[c].err) = Error(d) \o ": " \o Error(w)
                 /\ ret[c].err = <<Error(d)>> \o w

C2_Witness ==
    \E c \in Calls :
        /\ pc[c] = "failed"
        /\ FailedAt(c, "StartGenerateArtifact")
        /\ FailedAt(c, "Delete")
        /\ Error(ret[c].err) =
              "unable to remove the file: failed to start workflow: generate_artifact"

\* C3: when the workflow submission fails after the upload and both signed
\* links succeeded, the call has called Delete exactly once, on the uploaded
\* key, when it returns; if that Delete succeeded, it returns an empty ID and
\* exactly the submission's error.
C3_SubmissionFailureCleansUp ==
    \A c \in Calls :
        (/\ pc[c] = "failed"
         /\ Succeeded(c, "UploadArtifact")
         /\ Succeeded(c, "GetRequest")
         /\ Succeeded(c, "DeleteRequest")
         /\ FailedAt(c, "StartGenerateArtifact"))
        => /\ DeletedUploadOnce(c)
           /\ Succeeded(c, "Delete") =>
                 /\ ret[c].id = NoID
                 /\ {ret[c].err} = ErrorsOf(c, "StartGenerateArtifact")

C3_Witness ==
    \E c \in Calls :
        /\ pc[c] = "failed"
        /\ Succeeded(c, "DeleteRequest")
        /\ FailedAt(c, "StartGenerateArtifact")
        /\ Succeeded(c, "Delete")
        /\ artifactID[c] \notin storage
        /\ Error(ret[c].err) = "failed to start workflow: generate_artifact"

\* C4: when the signed DELETE link request fails after a successful upload
\* and GET link, the call deletes the uploaded object exactly once, never
\* submits to the workflows engine, and returns an empty ID with the DELETE
\* link error as the cause.
C4_DeleteAfterDeleteLinkFailure ==
    \A c \in Calls :
        (/\ Returned(c)
         /\ Succeeded(c, "UploadArtifact")
         /\ Succeeded(c, "GetRequest")
         /\ FailedAt(c, "DeleteRequest"))
        => /\ DeletedUploadOnce(c)
           /\ CallsOf(c, "StartGenerateArtifact") = {}
           /\ posted[c] = << >>
           /\ ret[c].id = NoID
           /\ ret[c].err # NoError
           /\ <<ret[c].err[Len(ret[c].err)]>> \in ErrorsOf(c, "DeleteRequest")

\* C5: whenever a call returns an error after its upload succeeded, either
\* a Delete of the uploaded key has succeeded and the object is gone, or the
\* returned error reports the failed Delete wrapped around the error of the
\* stage that failed.
C5_NoSilentOrphan ==
    \A c \in Calls :
        (/\ pc[c] = "failed"
         /\ Succeeded(c, "UploadArtifact"))
        => \/ /\ Succeeded(c, "Delete")
              /\ KeysOf(c, "Delete") = KeysOf(c, "UploadArtifact")
              /\ KeysOf(c, "UploadArtifact") \cap storage = {}
           \/ \E d \in ErrorsOf(c, "Delete") :
                 \E op \in {"GetRequest", "DeleteRequest", "StartGenerateArtifact"} :
                    \E e \in ErrorsOf(c, op) : ret[c].err = Wrap(e, Error(d))

\* C6: every call that has returned gave back either a non-empty ID with a
\* nil error or an empty ID with a non-nil error, never the other two
\* combinations.
C6_IDXorError ==
    \A c \in Calls :
        Returned(c) =>
            \/ ret[c].id # NoID /\ ret[c].err = NoError /\ pc[c] = "done"
            \/ ret[c].id = NoID /\ ret[c].err # NoError /\ pc[c] = "failed"

C6_Witness ==
    \E c, d \in Calls :
        /\ pc[c] = "done" /\ ret[c].id # NoID /\ ret[c].err = NoError
        /\ pc[d] = "failed" /\ ret[d].id = NoID /\ FailedAt(d, "Delete")

\* C7: on the success path the returned ID is not empty, is the key given to
\* UploadArtifact and to both signed-link requests of that call, and is the
\* ArtifactID of the one message posted to the workflows engine.
C7_SuccessIDIsKey ==
    \A c \in Calls :
        pc[c] = "done" =>
            /\ ret[c].id # NoID
            /\ KeysOf(c, "UploadArtifact") = {ret[c].id}
            /\ KeysOf(c, "GetRequest") = {ret[c].id}
            /\ KeysOf(c, "DeleteRequest") = {ret[c].id}
            /\ Len(posted[c]) = 1
            /\ posted[c][1].ArtifactID = ret[c].id

C7_Witness ==
    \E c \in Calls :
        /\ pc[c] = "done"
        /\ ret[c].id = "id2"
        /\ posted[c][1].ArtifactID = "id2"
        /\ "id2" \in storage

\* C8: a call whose uniqueness query reports a conflict (false, no error)
\* returns ErrModelArtifactNotUnique with an empty ID and calls neither the
\* file storage nor the workflows client.
C8_ConflictStopsBeforeStorage ==
    \A c \in Calls :
        (\E i \in CallsOf(c, "IsArtifactUnique") :
            ~calls[c][i].result /\ calls[c][i].err = NoError)
        => /\ pc[c] = "failed"
           /\ ret[c] = [id |-> NoID, err |-> ErrModelArtifactNotUnique]
           /\ \A op \in StorageOps \cup {"StartGenerateArtifact"} : CallsOf(c, op) = {}
           /\ posted[c] = << >>

C8_Witness ==
    \E c \in Calls :
        /\ pc[c] = "failed"
        /\ Len(calls[c]) = 1
        /\ calls[c][1] = Called("IsArtifactUnique", NoID, FALSE, NoError)
        /\ Error(ret[c].err) = "ErrModelArtifactNotUnique"

\* C9: a call whose message declares a size above MaxImageSize returns
\* ErrModelArtifactFileTooLarge with an empty ID and calls no collaborator.
C9_TooLargeNoCalls ==
    \A c \in Calls :
        (pc[c] # "idle" /\ ~msg[c].nil /\ msg[c].Size > MaxImageSize)
        => /\ pc[c] = "failed"
           /\ ret[c] = [id |-> NoID, err |-> ErrModelArtifactFileTooLarge]
           /\ calls[c] = << >>
           /\ posted[c] = << >>

C9_Witness ==
    \E c \in Calls :
        /\ pc[c] = "failed"
        /\ ~msg[c].nil
        /\ msg[c].Size = MaxImageSize + 1
        /\ ret[c].err = ErrModelArtifactFileTooLarge

\* C10: a call with a nil message returns
\* ErrModelMultipartUploadMsgMalformed with an empty ID and calls no
\* collaborator.
C10_NilNoCalls ==
    \A c \in Calls :
        (pc[c] # "idle" /\ msg[c].nil)
        => /\ pc[c] = "failed"
           /\ ret[c] = [id |-> NoID, err |-> ErrModelMultipartUploadMsgMalformed]
           /\ calls[c] = << >>
           /\ posted[c] = << >>

C10_Witness ==
    \E c \in Calls :
        /\ pc[c] = "failed"
        /\ msg[c].nil
        /\ ret[c].err = ErrModelMultipartUploadMsgMalformed

\* C11: when the uniqueness query itself returns an error, whatever boolean
\* comes with it, the call returns an empty ID and that error wrapped as
\* "Fail to check if artifact is unique: <cause>", never
\* ErrModelArtifactNotUnique, and calls neither the file storage nor the
\* workflows client.
C11_QueryErrorWrapped ==
    \A c \in Calls :
        \A i \in CallsOf(c, "IsArtifactUnique") :
            calls[c][i].err # NoError =>
                /\ pc[c] = "failed"
                /\ ret[c].id = NoID
                /\ ret[c].err = Wrap(calls[c][i].err, MsgUniqueCheck)
                /\ Error(ret[c].err) =
                      "Fail to check if artifact is unique: " \o Error(calls[c][i].err)
                /\ ret[c].err # ErrModelArtifactNotUnique
                /\ \A op \in StorageOps \cup {"StartGenerateArtifact"} : CallsOf(c, op) = {}
                /\ posted[c] = << >>

C11_Witness ==
    \E c \in Calls :
        /\ pc[c] = "failed"
        /\ calls[c] = <<Called("IsArtifactUnique", NoID, FALSE, ErrDbQuery)>>
        /\ Error(ret[c].err) = "Fail to check if artifact is unique: error"

\* C12: when UploadArtifact returns an error, the call returns an empty ID
\* and the upload's error, and calls neither Delete nor a signed-link request
\* nor the workflows client.
C12_UploadFailureStops ==
    \A c \in Calls :
        FailedAt(c, "UploadArtifact") =>
            /\ pc[c] = "failed"
            /\ ret[c].id = NoID
            /\ {ret[c].err} = ErrorsOf(c, "UploadArtifact")
            /\ \A op \in {"Delete", "GetRequest", "DeleteRequest", "StartGenerateArtifact"} :
                  CallsOf(c, op) = {}
            /\ posted[c] = << >>

C12_Witness ==
    \E c \in Calls :
        /\ pc[c] = "failed"
        /\ FailedAt(c, "UploadArtifact")
        /\ Len(calls[c]) = 2
        /\ Error(ret[c].err) = "error while uploading"

\* the forward stages of one call, in order
ForwardOps ==
    <<"IsArtifactUnique", "UploadArtifact", "GetRequest", "DeleteRequest",
      "StartGenerateArtifact">>

\* the forward calls of call c: its record without the Deletes
ForwardCalls(c) == SelectSeq(calls[c], LAMBDA e : e.op # "Delete")

\* C13: the forward collaborator calls of one call are a prefix of
\* IsArtifactUnique, UploadArtifact, GetRequest, DeleteRequest,
\* StartGenerateArtifact: each made at most once and only after the one
\* before it returned success; the call is done only after the submission
\* succeeded.
C13_ForwardPrefix ==
    \A c \in Calls :
        LET f == ForwardCalls(c) IN
        /\ Len(f) <= Len(ForwardOps)
        /\ \A i \in DOMAIN f : f[i].op = ForwardOps[i]
        /\ \A i \in DOMAIN f : i < Len(f) => f[i].err = NoError /\ f[i].result
        /\ pc[c] = "done" =>
              /\ Len(f) = Len(ForwardOps)
              /\ f[Len(f)].err = NoError

C13_Witness ==
    \E c, d \in Calls :
        /\ pc[c] = "done"
        /\ Len(ForwardCalls(c)) = 5
        /\ pc[d] = "failed"
        /\ Len(ForwardCalls(d)) = 3
        /\ FailedAt(d, "GetRequest")

\* C14: one call calls Delete at most once, only after its own UploadArtifact
\* succeeded and only with the key of that upload; a call that failed in
\* validation, in the uniqueness query or in the upload has called no Delete.
C14_DeleteOnlyOwnUpload ==
    \A c \in Calls :
        /\ Cardinality(CallsOf(c, "Delete")) <= 1
        /\ \A i \in CallsOf(c, "Delete") :
              \E j \in CallsOf(c, "UploadArtifact") :
                 /\ j < i
                 /\ calls[c][j].err = NoError
                 /\ calls[c][j].key = calls[c][i].key
        /\ (pc[c] = "failed" /\ ~Succeeded(c, "UploadArtifact")) =>
              CallsOf(c, "Delete") = {}

C14_Witness ==
    \E c, d \in Calls :
        /\ pc[c] = "failed"
        /\ FailedAt(c, "UploadArtifact")
        /\ CallsOf(c, "Delete") = {}
        /\ pc[d] = "failed"
        /\ Cardinality(CallsOf(d, "Delete")) = 1
        /\ KeysOf(d, "Delete") = {artifactID[d]}

\* C15: when ctx is cancelled after the upload succeeded and before the call
\* is done, the call in flight is aborted and the call still calls Delete on
\* the uploaded key before it returns.
C15_CancelStillCleansUp ==
    \A c \in Calls :
        (/\ Returned(c)
         /\ Succeeded(c, "UploadArtifact")
         /\ cancelled[c])
        => /\ pc[c] = "failed"
           /\ DeletedUploadOnce(c)

C17_PostedMsgFields ==
    \A c \in Calls :
        \A i \in DOMAIN posted[c] :
            LET p == posted[c][i] IN
            /\ p.Name = msg[c].Name
            /\ p.Description = msg[c].Description
            /\ p.Size = msg[c].Size
            /\ p.DeviceTypesCompatible = msg[c].DeviceTypesCompatible
            /\ p.Type = msg[c].Type
            /\ p.Args = msg[c].Args
            /\ p.Token = msg[c].Token
            /\ \E k \in KeysOf(c, "GetRequest") :
                  Succeeded(c, "GetRequest") /\ p.GetArtifactURI = Link("GET", k).Uri
            /\ \E k \in KeysOf(c, "DeleteRequest") :
                  Succeeded(c, "DeleteRequest") /\ p.DeleteArtifactURI = Link("DELETE", k).Uri

C17_Witness ==
    \E c, d \in Calls :
        /\ c # d
        /\ Len(posted[c]) = 1 /\ Len(posted[d]) = 1
        /\ posted[c][1].Name = "name" /\ posted[d][1].Name = "other"
        /\ posted[c][1].Args = "args" /\ posted[c][1].Token = "token"
        /\ posted[c][1].GetArtifactURI = <<"GET", artifactID[c]>>
        /\ posted[d][1].DeleteArtifactURI = <<"DELETE", artifactID[d]>>

\* C18: StartGenerateArtifact returns nil only when the engine answers 201
\* Created; for any other status it returns "failed to start workflow:
\* generate_artifact", for a transport error a non-nil error; and it sends
\* one request per submission.
C18_OnlyCreatedIsSuccess ==
    \A c \in Calls :
        /\ Len(responses[c]) = Cardinality(CallsOf(c, "StartGenerateArtifact"))
        /\ Len(posted[c]) = Len(responses[c])
        /\ Len(responses[c]) <= 1
        /\ \A i \in CallsOf(c, "StartGenerateArtifact") :
              LET resp == responses[c][1]
                  err == calls[c][i].err
              IN /\ err = NoError <=>
                       (resp.err = NoError /\ resp.StatusCode = StatusCreated)
                 /\ (resp.err = NoError /\ resp.StatusCode # StatusCreated) =>
                       Error(err) = "failed to start workflow: generate_artifact"
                 /\ resp.err # NoError => err # NoError

C18_Witness ==
    \E c, d \in Calls :
        /\ pc[c] = "done" /\ responses[c][1].StatusCode = StatusCreated
        /\ FailedAt(d, "StartGenerateArtifact")
        /\ responses[d][1].StatusCode = 200 /\ responses[d][1].err = NoError

\* C19: whatever the payload stream offers, the upload reads at most the
\* declared Size bytes from it.
C19_UploadReadsAtMostSize ==
    \A c \in Calls : consumed[c] <= msg[c].Size /\ consumed[c] <= reader[c]

C19_Witness ==
    \E c \in Calls :
        /\ Succeeded(c, "UploadArtifact")
        /\ reader[c] > msg[c].Size
        /\ msg[c].Size > 0
        /\ consumed[c] = msg[c].Size
\* a call that returned because a forward collaborator call failed
FailedForward(c) ==
    /\ pc[c] = "failed"
    /\ ForwardCalls(c) # << >>
    /\ ForwardCalls(c)[Len(ForwardCalls(c))].err # NoError

\* that call's failing stage, the error it returned and its root cause
FailedCall(c) == ForwardCalls(c)[Len(ForwardCalls(c))]

RootCause(err) == err[Len(err)]

ValidationErrors == {ErrModelMultipartUploadMsgMalformed, ErrModelArtifactFileTooLarge}

SameInput(c, d) == msg[c] = msg[d] /\ tenant[c] = tenant[d]

StorageKeys(c) == UNION {KeysOf(c, op) : op \in StorageOps}

OwnResults(c) ==
    [i \in DOMAIN calls[c] |->
        [op |-> calls[c][i].op, result |-> calls[c][i].result, err |-> calls[c][i].err]]

\* C24: in every interleaving of two concurrent calls the sagas use
\* different storage keys; a call's outcome depends only on its own request
\* and its own collaborators' results; the object one call uploaded stays in
\* storage until that call's own Delete removes it.
C24_SagasIndependent ==
    \A c, d \in Calls :
        c # d =>
            /\ StorageKeys(c) \cap StorageKeys(d) = {}
            /\ (Succeeded(d, "UploadArtifact") /\ ~Succeeded(d, "Delete")) =>
                   KeysOf(d, "UploadArtifact") \subseteq storage
            /\ (Returned(c) /\ Returned(d) /\ SameInput(c, d)
                  /\ OwnResults(c) = OwnResults(d)) =>
                   /\ pc[c] = pc[d]
                   /\ ret[c].err = ret[d].err

C24_Witness ==
    \E c, d \in Calls :
        /\ c # d
        /\ Succeeded(c, "Delete")
        /\ Succeeded(d, "UploadArtifact")
        /\ CallsOf(d, "Delete") = {}
        /\ KeysOf(d, "UploadArtifact") \subseteq storage
        /\ KeysOf(c, "UploadArtifact") \cap storage = {}

\* the request the middleware handled carried a token that parses
ValidJWT(r) == \E jwt \in r.Authorization : jwt.claims # {}

\* C25: the go-json-rest IdentityMiddleware never stops the handler chain:
\* whether the JWT is missing, unparsable or valid, the wrapped handler is
\* invoked exactly once.
C25_RestHandlerCalledOnce ==
    http.mw = "rest" => http.handled = 1

C25_Witness ==
    /\ http.mw = "rest"
    /\ http.req.Authorization = {}
    /\ http.handled = 1

\* two device type lists with a type in common
Overlap(s, t) == \E i \in DOMAIN s, j \in DOMAIN t : s[i] = t[j]

\* C26: two concurrent calls with the same name and overlapping device types
\* can both pass the uniqueness check and both reach Done; whenever they do,
\* each was told it is unique and they return distinct ArtifactIDs.
C26_BothDoneDistinctIDs ==
    \A c, d \in Calls :
        (/\ c # d
         /\ pc[c] = "done"
         /\ pc[d] = "done"
         /\ msg[c].Name = msg[d].Name
         /\ Overlap(msg[c].DeviceTypesCompatible, msg[d].DeviceTypesCompatible)) =>
            /\ ret[c].id # NoID
            /\ ret[d].id # NoID
            /\ ret[c].id # ret[d].id
            /\ \A i \in CallsOf(c, "IsArtifactUnique") :
                   calls[c][i].result /\ calls[c][i].err = NoError

C26_Witness ==
    \E c, d \in Calls :
        /\ c # d
        /\ pc[c] = "done"
        /\ pc[d] = "done"
        /\ msg[c].Name = msg[d].Name
        /\ Overlap(msg[c].DeviceTypesCompatible, msg[d].DeviceTypesCompatible)
        /\ Succeeded(c, "IsArtifactUnique")
        /\ Succeeded(d, "IsArtifactUnique")
        /\ ret[c].id # NoID
        /\ ret[d].id # NoID
        /\ ret[c].id # ret[d].id

\* C27: on the success path Delete is never called, and whenever a non-empty
\* ArtifactID has been returned the object uploaded under that key is still
\* in storage.
C27_SuccessKeepsUpload ==
    \A c \in Calls :
        /\ pc[c] = "done" => CallsOf(c, "Delete") = {}
        /\ ret[c].id # NoID =>
               /\ KeysOf(c, "UploadArtifact") = {ret[c].id}
               /\ ret[c].id \in storage

C27_Witness ==
    \E c, d \in Calls :
        /\ c # d
        /\ pc[c] = "done"
        /\ ret[c].id \in storage
        /\ Succeeded(d, "Delete")

\* C28: provided every collaborator call returns, every call that was made
\* eventually reaches Done or Failed; no collaborator is called twice by one
\* call, and a failed compensating Delete still ends in Failed.
C28_EveryCallReturns ==
    /\ [](\A c \in Calls :
             \A op \in StorageOps \cup {"IsArtifactUnique", "StartGenerateArtifact"} :
                 Cardinality(CallsOf(c, op)) <= 1)
    /\ \A c \in Calls : (pc[c] # "idle") ~> Returned(c)

C28_Witness ==
    \E c \in Calls :
        /\ pc[c] = "failed"
        /\ FailedAt(c, "StartGenerateArtifact")
        /\ FailedAt(c, "Delete")

\* C29: gin Middleware: on a route the regex matches, the downstream
\* handlers run only if the JWT was extracted and parsed, and then the
\* request context carries the identity whether or not UpdateLogger is set;
\* if either fails the response is 401 with a WWW-Authenticate Bearer
\* header, the chain is aborted and no identity is attached; on a route the
\* regex does not match the request is passed on unchanged, never aborted.
C29_GinMiddleware ==
    http.mw = "gin" =>
        IF MatchString(http.opt.PathRegex, http.req.FullPath)
        THEN IF ValidJWT(http.req)
             THEN /\ http.handled = 1
                  /\ ~http.aborted
                  /\ http.status = 0
                  /\ http.ctx.identity # {}
                  /\ \A jwt \in http.req.Authorization :
                         http.ctx.identity = jwt.claims
             ELSE /\ http.handled = 0
                  /\ http.aborted
                  /\ http.status = StatusUnauthorized
                  /\ http.wwwAuthenticate = BearerRealm
                  /\ http.ctx = http.req.ctx
        ELSE /\ http.handled = 1
             /\ ~http.aborted
             /\ http.status = 0
             /\ http.wwwAuthenticate = ""
             /\ http.ctx = http.req.ctx

C29_Witness ==
    /\ http.mw = "gin"
    /\ MatchString(http.opt.PathRegex, http.req.FullPath)
    /\ http.req.Authorization # {}
    /\ ~ValidJWT(http.req)
    /\ http.status = StatusUnauthorized
    /\ http.aborted
    /\ http.handled = 0

\* C30: the go-json-rest IdentityMiddleware attaches an identity to the
\* request context exactly when the JWT was extracted and parsed, whatever
\* UpdateLogger is; when either fails the request and its context reach the
\* wrapped handler unchanged.
C30_RestIdentityAttached ==
    http.mw = "rest" =>
        IF ValidJWT(http.req)
        THEN /\ http.ctx.identity # {}
             /\ \A jwt \in http.req.Authorization : http.ctx.identity = jwt.claims
        ELSE /\ http.ctx = http.req.ctx
             /\ http.handled >= 1

C30_Witness ==
    /\ http.mw = "rest"
    /\ ValidJWT(http.req)
    /\ ~http.opt.UpdateLogger
    /\ http.ctx.identity # {}
    /\ http.ctx.logger = http.req.ctx.logger
    /\ http.handled = 1

\* the arguments that set a field: not nil, the field's pointer not nil
SetsPathRegex(opts) == {i \in DOMAIN opts : ~opts[i].nil /\ opts[i].PathRegex # {}}

SetsUpdateLogger(opts) == {i \in DOMAIN opts : ~opts[i].nil /\ opts[i].UpdateLogger # {}}

Last(positions) == CHOOSE i \in positions : \A j \in positions : j <= i

====
